---- MODULE Spec2Model ----
(***************************************************************************)
(* State-machine model of the dogecash node's REST coin lookup             *)
(* (src/src/rest.cpp, rest_getutxos) over the layered coin view, of the    *)
(* legacy shielded stake input (src/unnamed/part_000), and of the coin     *)
(* view cache and uniqueness index that the ledger core rests on.          *)
(***************************************************************************)
EXTENDS Integers, Sequences, FiniteSets, TLC

VARIABLES
    chainTip,       \* chainActive.Tip(): the block at the top of the active chain
    coinsDB,        \* the backing store under pcoinsTip: outpoint -> Coin (unspent only)
    cacheCoins,     \* pcoinsTip's cache: outpoint -> [coin, dirty, fresh]
    mempool,        \* the txids of the pooled (unconfirmed) transactions
    pc,             \* position of the rest_getutxos call in flight
    reqIn,          \* the HTTP request as received (format, URI parts, body)
    rf,             \* rest_getutxos local: output format
    fCheckMemPool,  \* rest_getutxos local
    vOutPoints,     \* rest_getutxos local
    hits,           \* rest_getutxos local
    bitmap,         \* rest_getutxos local: bytes
    bitmapStringRepresentation, \* rest_getutxos local
    outs,           \* rest_getutxos local: the CCoin records
    reply,          \* what was written with WriteReply, and the handler's return value
    touched,        \* which shared objects the call has used: lock, coin view, mempool
    fWarmup,        \* RPCIsInWarmup()
    stake,          \* a CLegacyZFlsStake object
    stakeCall,      \* the last call made on it: arguments before and after, result
    viewBase,       \* Coin View tests: the parent view
    viewCache,      \* Coin View tests: the cache chained over it
    viewDirect,     \* Coin View tests: the same operations applied to the parent alone
    viewLast,       \* Coin View tests: the last operation and its result
    uniq,           \* the Uniqueness Index: fingerprint -> recording height
    stakeChain,     \* the fingerprints staked by the accepted blocks, oldest first
    uniqLast,       \* the last Uniqueness Index operation and its result
    nReplies,       \* WriteReply calls made by the rest_getutxos call in flight
    hcall,          \* the call in flight of one of the other REST handlers
    llmq            \* llmq::blsWorker, quorumBlockProcessor and the workers on the heap

restVars == <<pc, reqIn, rf, fCheckMemPool, vOutPoints, hits, bitmap,
              bitmapStringRepresentation, outs, reply, touched>>
ledgerVars == <<chainTip, coinsDB, cacheCoins, mempool>>
stakeVars == <<stake, stakeCall>>
viewVars == <<viewBase, viewCache, viewDirect, viewLast>>
uniqVars == <<uniq, stakeChain, uniqLast>>
handlerVars == <<nReplies, hcall>>
llmqVars == <<llmq>>
coreVars == <<stakeVars, viewVars, uniqVars, llmqVars>>
vars == <<chainTip, coinsDB, cacheCoins, mempool, pc, reqIn, rf, fCheckMemPool,
          vOutPoints, hits, bitmap, bitmapStringRepresentation, outs, reply, touched,
          fWarmup, stake, stakeCall, viewBase, viewCache, viewDirect, viewLast,
          uniq, stakeChain, uniqLast, nReplies, hcall, llmq>>

(***************************************************************************)
(* Program constants                                                       *)
(***************************************************************************)
MAX_GETUTXOS_OUTPOINTS == 15

\* the sentinel height of a coin synthesized from a pooled transaction
MEMPOOL_HEIGHT == 2147483647

HTTP_OK == 200
HTTP_NOT_FOUND == 404
HTTP_INTERNAL_SERVER_ERROR == 500
HTTP_SERVICE_UNAVAILABLE == 503

(***************************************************************************)
(* Bounds of the model                                                     *)
(***************************************************************************)
\* the longest list of outpoints one request carries (SpecLookup)
MaxReqLen == 16
\* the longest list of outpoints of a request served while the ledger moves (Spec)
MaxShortLen == 2

(***************************************************************************)
(* Transactions, blocks and coins                                          *)
(***************************************************************************)
TxIds == {1, 2, 3}

\* the outpoints each transaction consumes
TxIn == [t \in TxIds |-> CASE t = 1 -> {}
                           [] t = 2 -> {<<1, 0>>}
                           [] t = 3 -> {<<2, 0>>}]

\* the outputs each transaction creates (CTxOut: value and locking script)
TxOut == [t \in TxIds |-> CASE t = 1 -> <<[nValue |-> 500000, scriptPubKey |-> 1]>>
                            [] t = 2 -> <<[nValue |-> 499000, scriptPubKey |-> 2]>>
                            [] t = 3 -> <<[nValue |-> 498000, scriptPubKey |-> 3]>>]

\* outpoints a request may name: <<txid, n>>; <<2, 1>> names an output nobody creates
Outpoints == {<<1, 0>>, <<2, 0>>, <<2, 1>>, <<3, 0>>}

Produces(t, op) == op[1] = t /\ op[2] < Len(TxOut[t])

\* the block tree: "g" is the first block, "b1" forks from "a1"
Blocks == {"g", "a1", "b1", "a2"}
NoBlock == "none"

BlockIndex == [b \in Blocks |->
    CASE b = "g"  -> [nHeight |-> 100, pprev |-> NoBlock, vtx |-> {1}]
      [] b = "a1" -> [nHeight |-> 101, pprev |-> "g",     vtx |-> {2}]
      [] b = "b1" -> [nHeight |-> 101, pprev |-> "g",     vtx |-> {}]
      [] b = "a2" -> [nHeight |-> 102, pprev |-> "a1",    vtx |-> {3}]]

Genesis == "g"

\* Coin: a spent coin is the null coin (its output's value is -1)
NullCoin == [nHeight |-> 0, fCoinBase |-> FALSE, out |-> [nValue |-> -1, scriptPubKey |-> 0]]
IsSpent(coin) == coin.out.nValue = -1
MakeCoin(t, n, h) == [nHeight |-> h, fCoinBase |-> (TxIn[t] = {}), out |-> TxOut[t][n + 1]]

EmptyMap == [o \in {} |-> NullCoin]

\* the outpoints the transactions of a set create / consume
CreatedBy(txs) == {op \in Outpoints : \E t \in txs : Produces(t, op)}
SpentBy(txs) == UNION {TxIn[t] : t \in txs}

\* The unspent outputs of the chain ending in block b, from the block tree alone.
RECURSIVE ChainUtxo(_)
ChainUtxo(b) ==
    LET below == IF BlockIndex[b].pprev = NoBlock THEN EmptyMap
                 ELSE ChainUtxo(BlockIndex[b].pprev)
        txs == BlockIndex[b].vtx
        keep == (DOMAIN below \ SpentBy(txs)) \cup CreatedBy(txs)
    IN [op \in keep |-> IF op \in CreatedBy(txs)
                        THEN MakeCoin(op[1], op[2], BlockIndex[b].nHeight)
                        ELSE below[op]]

RECURSIVE ConfirmedTxs(_)
ConfirmedTxs(b) ==
    BlockIndex[b].vtx \cup
        (IF BlockIndex[b].pprev = NoBlock THEN {} ELSE ConfirmedTxs(BlockIndex[b].pprev))

(***************************************************************************)
(* The coin view cache (Coin View, spec 4.1) and the views rest_getutxos   *)
(* stacks on it                                                            *)
(***************************************************************************)
Entry(coin, dirty, fresh) == [coin |-> coin, dirty |-> dirty, fresh |-> fresh]
NoEntries == [o \in {} |-> Entry(NullCoin, FALSE, FALSE)]

Found(coin) == [found |-> TRUE, coin |-> coin]
NotFound == [found |-> FALSE, coin |-> NullCoin]

\* the backing store's GetCoin
DBGetCoin(db, op) == IF op \in DOMAIN db THEN Found(db[op]) ELSE NotFound

\* the base CCoinsView (viewDummy): it holds no coin
DummyGetCoin(op) == NotFound

\* GetCoin's miss path: the parent's record enters the cache non-dirty, non-fresh
FetchCoin(cache, op, fromParent) ==
    IF op \in DOMAIN cache THEN cache
    ELSE IF fromParent.found THEN cache @@ (op :> Entry(fromParent.coin, FALSE, FALSE))
    ELSE cache

\* GetCoin of a cache: the record, whether it was found unspent, and the cache after
CacheGetCoin(cache, op, fromParent) ==
    LET c == FetchCoin(cache, op, fromParent)
        ok == op \in DOMAIN c /\ ~IsSpent(c[op].coin)
    IN [found |-> ok, coin |-> IF ok THEN c[op].coin ELSE NullCoin, cache |-> c]

\* pcoinsTip->GetCoin: the authoritative cache over the backing store
ChainGetCoin(cc, db, op) == CacheGetCoin(cc, op, DBGetCoin(db, op))

\* mempool.isSpent: some pooled transaction consumes the outpoint
isSpent(pool, op) == \E t \in pool : op \in TxIn[t]

\* CCoinsViewMemPool::GetCoin: a pooled transaction's output is synthesized with
\* the sentinel height, anything else is asked of the authoritative view
MempoolGetCoin(pool, cc, db, op) ==
    IF \E t \in pool : Produces(t, op)
    THEN [found |-> TRUE, coin |-> MakeCoin(op[1], op[2], MEMPOOL_HEIGHT), cache |-> cc]
    ELSE ChainGetCoin(cc, db, op)

(***************************************************************************)
(* rest_getutxos: the lookup under LOCK2(cs_main, mempool.cs)              *)
(***************************************************************************)
\* CCoin(Coin&&): the reply's coin record keeps the height and the output
CCoin(coin) == [nHeight |-> coin.nHeight, out |-> coin.out]

\* the backend of the per-request cache `view`
ViewBackend(checkMemPool) == IF checkMemPool THEN "viewMempool" ELSE "viewDummy"

\* view.GetCoin: the per-request cache first, its backend on a miss.
\* cc is pcoinsTip's cache, which a read through viewMempool may fill.
ViewGetCoin(backend, view, pool, cc, db, op) ==
    IF op \in DOMAIN view
    THEN [found |-> ~IsSpent(view[op].coin),
          coin |-> IF IsSpent(view[op].coin) THEN NullCoin ELSE view[op].coin,
          view |-> view, cc |-> cc]
    ELSE LET below == IF backend = "viewMempool" THEN MempoolGetCoin(pool, cc, db, op)
                      ELSE [found |-> DummyGetCoin(op).found,
                            coin |-> DummyGetCoin(op).coin, cache |-> cc]
             r == CacheGetCoin(view, op, [found |-> below.found, coin |-> below.coin])
         IN [found |-> r.found, coin |-> r.coin, view |-> r.cache, cc |-> below.cache]

\* (mutant) the hit test without the pool's spent check
IsHit_NoSpentCheck(found, spentInPool) == found

\* the hit test of one outpoint
IsHit(found, spentInPool) == found /\ ~spentInPool

\* bitmap[i / 8] |= ((uint8_t)hit) << (i % 8), on a byte
BitAt(byte, k) == (byte \div (2 ^ k)) % 2

\* (mutant) the shift taken modulo 7
OrBit_Mod7(byte, hit, k) ==
    IF hit /\ BitAt(byte, k % 7) = 0 THEN (byte + 2 ^ (k % 7)) % 256 ELSE byte

OrBit(byte, hit, k) == IF hit /\ BitAt(byte, k) = 0 THEN (byte + 2 ^ k) % 256 ELSE byte

\* bitmap.resize((n + 7) / 8)
BitmapSize(n) == (n + 7) \div 8

\* the loop over vOutPoints, from (1-based) position i on
RECURSIVE LookupLoop(_, _, _, _, _, _)
LookupLoop(i, ops, backend, pool, db, st) ==
    IF i > Len(ops) THEN st
    ELSE LET op == ops[i]
             r == ViewGetCoin(backend, st.view, pool, st.cc, db, op)
             hit == IsHit(r.found, isSpent(pool, op))
         IN LookupLoop(i + 1, ops, backend, pool, db,
              [view |-> r.view,
               cc |-> r.cc,
               hits |-> Append(st.hits, hit),
               str |-> Append(st.str, IF hit THEN "1" ELSE "0"),
               bitmap |-> [st.bitmap EXCEPT ![((i - 1) \div 8) + 1] =
                                                OrBit(@, hit, (i - 1) % 8)],
               outs |-> IF hit THEN Append(st.outs, CCoin(r.coin)) ELSE st.outs,
               poolRead |-> st.poolRead \/ backend = "viewMempool" \/ r.found])

\* the state of the locked block before the loop: an empty per-request cache
BeforeLoop(ops, cc) ==
    [view |-> NoEntries, cc |-> cc, hits |-> <<>>, str |-> <<>>,
     bitmap |-> [k \in 1..BitmapSize(Len(ops)) |-> 0], outs |-> <<>>,
     poolRead |-> FALSE]

\* (mutant) the overlay installed under the authoritative cache itself, which
\* then keeps what was fetched through it
GetUtxosLookup_SharedBackend(checkMemPool, ops, pool, cc, db) ==
    LET r == LookupLoop(1, ops, ViewBackend(checkMemPool), pool, db, BeforeLoop(ops, cc))
    IN [r EXCEPT !.cc = r.view @@ r.cc]

\* the whole locked block; `view` is dropped, unflushed, at its end
GetUtxosLookup(checkMemPool, ops, pool, cc, db) ==
    LookupLoop(1, ops, ViewBackend(checkMemPool), pool, db, BeforeLoop(ops, cc))

(***************************************************************************)
(* rest_getutxos: the request and its parsing                              *)
(***************************************************************************)
\* One part of the URI path after /rest/getutxos, split at "/"
CheckMempoolPart == [kind |-> "checkmempool", op |-> <<0, 0>>]
OutpointPart(op) == [kind |-> "outpoint", op |-> op]    \* "<hex txid>-<n>"
MalformedPart == [kind |-> "malformed", op |-> <<0, 0>>] \* txid not hex, or n no int32

\* The body: nothing, bytes that do not deserialize ("junk"), or the serialization
\* of (fCheckMemPool, vOutPoints) ("ser"); sent raw or as hex text
NoBody == [enc |-> "raw", kind |-> "none", fCheckMemPool |-> FALSE, vOutPoints |-> <<>>]
JunkBody(enc) == [enc |-> enc, kind |-> "junk", fCheckMemPool |-> FALSE, vOutPoints |-> <<>>]
SerBody(enc, cm, ops) == [enc |-> enc, kind |-> "ser", fCheckMemPool |-> cm, vOutPoints |-> ops]

\* ParseDataFormat: the text after the "." names the format
ParseDataFormat(fmt) ==
    CASE fmt = "bin" -> "RF_BINARY"
      [] fmt = "hex" -> "RF_HEX"
      [] fmt = "json" -> "RF_JSON"
      [] OTHER -> "RF_UNDEF"

\* RESTERR: writes the error reply and returns false
\* (mutant) the error reply reported as success to the caller
RESTERR_ReturnsTrue(status, message) ==
    [status |-> status, ret |-> TRUE, message |-> message, contentType |-> "text/plain",
     chainHeight |-> -1, chaintipHash |-> NoBlock]

RESTERR(status, message) ==
    [status |-> status, ret |-> FALSE, message |-> message, contentType |-> "text/plain",
     chainHeight |-> -1, chaintipHash |-> NoBlock]

NoReply == [status |-> 0, ret |-> FALSE, message |-> "", contentType |-> "",
            chainHeight |-> -1, chaintipHash |-> NoBlock]

\* !ParseInt32(strOutput, &nOutput) || !IsHex(strTxid): only "<hex>-<int>" passes;
\* a "checkmempool" that is not the first part is read as an outpoint and fails
ParsesAsOutpoint(part) == part.kind = "outpoint"

\* ParseHex: hex text becomes the bytes it spells; on bytes that are no hex digits
\* it stops at once and yields nothing
ParseHex(body) ==
    IF body.enc = "hex" THEN [body EXCEPT !.enc = "raw"] ELSE NoBody

\* oss >> fCheckMemPool; oss >> vOutPoints succeeds on a serialization only
Deserializes(body) == body.enc = "raw" /\ body.kind = "ser"

ParseError(status, message) ==
    [err |-> TRUE, status |-> status, message |-> message, rf |-> "RF_UNDEF",
     fCheckMemPool |-> FALSE, vOutPoints |-> <<>>]

\* (mutant) the limit off by one: fifteen outpoints are refused
LimitOutpoints_OffByOne(fmt, cm, ops) ==
    IF Len(ops) >= MAX_GETUTXOS_OUTPOINTS
    THEN ParseError(HTTP_INTERNAL_SERVER_ERROR, "Error: max outpoints exceeded")
    ELSE [err |-> FALSE, status |-> 0, message |-> "", rf |-> fmt,
          fCheckMemPool |-> cm, vOutPoints |-> ops]

\* the last check before the lookup: limit max outpoints
LimitOutpoints(fmt, cm, ops) ==
    IF Len(ops) > MAX_GETUTXOS_OUTPOINTS
    THEN ParseError(HTTP_INTERNAL_SERVER_ERROR, "Error: max outpoints exceeded")
    ELSE [err |-> FALSE, status |-> 0, message |-> "", rf |-> fmt,
          fCheckMemPool |-> cm, vOutPoints |-> ops]

\* rest_getutxos from ParseDataFormat to the outpoint limit
ParseRequest(in) ==
    LET fmt == ParseDataFormat(in.fmt)
        uriParts == in.uri
        cm == Len(uriParts) > 0 /\ uriParts[1].kind = "checkmempool"
        items == SubSeq(uriParts, IF cm THEN 2 ELSE 1, Len(uriParts))
        uriOps == [i \in 1..Len(items) |-> items[i].op]
        fInputParsed == Len(items) > 0
        strRequest == IF fmt = "RF_HEX" THEN ParseHex(in.body) ELSE in.body
    IN IF in.body.kind = "none" /\ Len(uriParts) = 0
       THEN ParseError(HTTP_INTERNAL_SERVER_ERROR, "Error: empty request")
       ELSE IF \E i \in 1..Len(items) : ~ParsesAsOutpoint(items[i])
       THEN ParseError(HTTP_INTERNAL_SERVER_ERROR, "Parse error")
       ELSE IF Len(uriParts) > 0 /\ Len(items) = 0
       THEN ParseError(HTTP_INTERNAL_SERVER_ERROR, "Error: empty request")
       ELSE CASE fmt \in {"RF_HEX", "RF_BINARY"} ->
                   IF strRequest.kind # "none"
                   THEN IF fInputParsed
                        THEN ParseError(HTTP_INTERNAL_SERVER_ERROR,
                               "Combination of URI scheme inputs and raw post data is not allowed")
                        ELSE IF ~Deserializes(strRequest)
                        THEN ParseError(HTTP_INTERNAL_SERVER_ERROR, "Parse error")
                        ELSE LimitOutpoints(fmt, strRequest.fCheckMemPool,
                                            strRequest.vOutPoints)
                   ELSE LimitOutpoints(fmt, cm, uriOps)
              [] fmt = "RF_JSON" ->
                   IF ~fInputParsed
                   THEN ParseError(HTTP_INTERNAL_SERVER_ERROR, "Error: empty request")
                   ELSE LimitOutpoints(fmt, cm, uriOps)
              [] OTHER -> ParseError(HTTP_NOT_FOUND, "output format not found")

(***************************************************************************)
(* The requests the model sends                                            *)
(***************************************************************************)
Formats == {"", "bin", "hex", "json", "xml"}

\* a list of n outpoints repeating a base of one or two outpoints
Cycle(base, n) == [i \in 1..n |-> base[((i - 1) % Len(base)) + 1]]
Bases == {<<a>> : a \in Outpoints} \cup
         {p \in Outpoints \X Outpoints : p[1] # p[2]}
OutpointLists(maxLen) == {Cycle(base, n) : base \in Bases, n \in 0..maxLen}

\* the URI naming the outpoints of ops, the part at position bad (if any) malformed
UriOf(cm, ops, bad) ==
    (IF cm THEN <<CheckMempoolPart>> ELSE <<>>) \o
    [i \in 1..Len(ops) |-> IF i = bad THEN MalformedPart ELSE OutpointPart(ops[i])]

Requests(maxLen) ==
    LET lists == OutpointLists(maxLen)
        viaUri == UNION {{[fmt |-> f, uri |-> UriOf(cm, ops, bad), body |-> NoBody] :
                            f \in Formats, cm \in BOOLEAN, bad \in {0, 1, Len(ops)}} :
                         ops \in lists}
        bodies == {NoBody, JunkBody("raw"), JunkBody("hex")} \cup
                  {SerBody(enc, cm, ops) :
                      enc \in {"raw", "hex"}, cm \in BOOLEAN, ops \in lists}
        viaBody == {[fmt |-> f, uri |-> <<>>, body |-> b] : f \in Formats, b \in bodies}
        some == CHOOSE op \in Outpoints : TRUE
        both == {[fmt |-> f, uri |-> u, body |-> b] :
                    f \in Formats,
                    u \in {UriOf(TRUE, <<some>>, 0), UriOf(FALSE, <<some>>, 0),
                           <<OutpointPart(some), CheckMempoolPart>>},
                    b \in {JunkBody("raw"), SerBody("raw", FALSE, <<some>>),
                           SerBody("hex", TRUE, <<some>>)}}
    IN viaUri \cup viaBody \cup both

\* the requests of Spec and of SpecLookup
ShortRequests == Requests(MaxShortLen)
LongRequests == Requests(MaxReqLen)

\* what the model keeps of a request once it is parsed
Summary(in) ==
    LET stray == {i \in 2..Len(in.uri) : in.uri[i].kind = "checkmempool"}
    IN [fmt |-> in.fmt,
        uriParts |-> Len(in.uri),
        uriOutpoints |-> Cardinality({i \in 1..Len(in.uri) : in.uri[i].kind = "outpoint"}),
        uriMalformed |-> stray # {} \/ \E i \in 1..Len(in.uri) : in.uri[i].kind = "malformed",
        bodyKind |-> in.body.kind,
        bodyEnc |-> in.body.enc,
        bodyOutpoints |-> Len(in.body.vOutPoints)]

NoRequest == [fmt |-> "", uriParts |-> 0, uriOutpoints |-> 0, uriMalformed |-> FALSE,
              bodyKind |-> "none", bodyEnc |-> "raw", bodyOutpoints |-> 0]

Untouched == [lock |-> FALSE, coins |-> FALSE, pool |-> FALSE]

(***************************************************************************)
(* rest_getutxos: the steps of one call                                    *)
(***************************************************************************)
ClearLocals ==
    /\ rf' = "RF_UNDEF"
    /\ fCheckMemPool' = FALSE
    /\ vOutPoints' = <<>>
    /\ hits' = <<>>
    /\ bitmap' = <<>>
    /\ bitmapStringRepresentation' = <<>>
    /\ outs' = <<>>

\* CheckWarmup: while the node warms up the call ends with 503
\* (mutant) the warmup state is not consulted
CheckWarmup_Always(warm) == TRUE

CheckWarmup(warm) == ~warm

\* A request arrives and is parsed; nothing shared is read up to here
Start(reqs) ==
    /\ pc = "idle"
    /\ \E in \in reqs :
         LET p == ParseRequest(in)
         IN /\ reqIn' = Summary(in)
            /\ IF ~CheckWarmup(fWarmup)
               THEN /\ reply' = RESTERR(HTTP_SERVICE_UNAVAILABLE,
                                        "Service temporarily unavailable")
                    /\ nReplies' = nReplies + 1
                    /\ pc' = "done"
                    /\ UNCHANGED <<rf, fCheckMemPool, vOutPoints>>
               ELSE IF p.err
               THEN /\ reply' = RESTERR(p.status, p.message)
                    /\ nReplies' = nReplies + 1
                    /\ pc' = "done"
                    /\ UNCHANGED <<rf, fCheckMemPool, vOutPoints>>
               ELSE /\ rf' = p.rf
                    /\ fCheckMemPool' = p.fCheckMemPool
                    /\ vOutPoints' = p.vOutPoints
                    /\ pc' = "parsed"
                    /\ UNCHANGED <<reply, nReplies>>
    /\ UNCHANGED <<hits, bitmap, bitmapStringRepresentation, outs, touched, fWarmup, hcall>>
    /\ UNCHANGED ledgerVars
    /\ UNCHANGED coreVars

\* The block under LOCK2(cs_main, mempool.cs): one atomic step
Lookup ==
    /\ pc = "parsed"
    /\ LET r == GetUtxosLookup(fCheckMemPool, vOutPoints, mempool, cacheCoins, coinsDB)
       IN /\ hits' = r.hits
          /\ bitmap' = r.bitmap
          /\ bitmapStringRepresentation' = r.str
          /\ outs' = r.outs
          /\ cacheCoins' = r.cc
          /\ touched' = [lock |-> TRUE, coins |-> Len(vOutPoints) > 0, pool |-> r.poolRead]
    /\ pc' = "looked"
    /\ UNCHANGED <<reqIn, rf, fCheckMemPool, vOutPoints, reply, fWarmup>>
    /\ UNCHANGED <<chainTip, coinsDB, mempool>>
    /\ UNCHANGED handlerVars
    /\ UNCHANGED coreVars

ContentType(fmt) ==
    CASE fmt = "RF_BINARY" -> "application/octet-stream"
      [] fmt = "RF_HEX" -> "text/plain"
      [] OTHER -> "application/json"

\* chainActive.Height(), read after the lock is released
ReadHeight ==
    /\ pc \in {"looked", "gotTip"}
    /\ reply' = [reply EXCEPT !.chainHeight = BlockIndex[chainTip].nHeight,
                              !.status = IF pc = "gotTip" THEN HTTP_OK ELSE @,
                              !.ret = (pc = "gotTip"),
                              !.contentType = IF pc = "gotTip" THEN ContentType(rf) ELSE @]
    /\ nReplies' = IF pc = "gotTip" THEN nReplies + 1 ELSE nReplies
    /\ pc' = IF pc = "gotTip" THEN "done" ELSE "gotHeight"
    /\ UNCHANGED <<reqIn, rf, fCheckMemPool, vOutPoints, hits, bitmap,
                   bitmapStringRepresentation, outs, touched, fWarmup, hcall>>
    /\ UNCHANGED ledgerVars
    /\ UNCHANGED coreVars

\* chainActive.Tip()->GetBlockHash(), read after the lock is released. The JSON
\* reply reads the height first; the order of the two operands of the stream
\* insertion (bin, hex) is the compiler's choice.
ReadTip ==
    /\ \/ pc = "gotHeight"
       \/ pc = "looked" /\ rf # "RF_JSON"
    /\ reply' = [reply EXCEPT !.chaintipHash = chainTip,
                              !.status = IF pc = "gotHeight" THEN HTTP_OK ELSE @,
                              !.ret = (pc = "gotHeight"),
                              !.contentType = IF pc = "gotHeight" THEN ContentType(rf) ELSE @]
    /\ nReplies' = IF pc = "gotHeight" THEN nReplies + 1 ELSE nReplies
    /\ pc' = IF pc = "gotHeight" THEN "done" ELSE "gotTip"
    /\ UNCHANGED <<reqIn, rf, fCheckMemPool, vOutPoints, hits, bitmap,
                   bitmapStringRepresentation, outs, touched, fWarmup, hcall>>
    /\ UNCHANGED ledgerVars
    /\ UNCHANGED coreVars

\* The handler has returned; the next request may come
Finish ==
    /\ pc = "done"
    /\ pc' = "idle"
    /\ reqIn' = NoRequest
    /\ reply' = NoReply
    /\ touched' = Untouched
    /\ nReplies' = 0
    /\ ClearLocals
    /\ UNCHANGED <<fWarmup, hcall>>
    /\ UNCHANGED ledgerVars
    /\ UNCHANGED coreVars

(***************************************************************************)
(* The ledger around the handler: block connection, the pool, the flush    *)
(***************************************************************************)
\* Flush's write of a cache into its parent: every dirty entry is propagated, a
\* spent one as a removal, any other as an insert or update
BatchWrite(parent, cache) ==
    LET dirty == {op \in DOMAIN cache : cache[op].dirty}
        gone == {op \in dirty : IsSpent(cache[op].coin)}
        keep == (DOMAIN parent \cup dirty) \ gone
    IN [op \in keep |-> IF op \in dirty THEN cache[op].coin ELSE parent[op]]

\* the authoritative view after the transactions of block b are applied
ApplyBlock(cc, b) ==
    LET txs == BlockIndex[b].vtx
        changed == SpentBy(txs) \cup CreatedBy(txs)
    IN [op \in DOMAIN cc \cup changed |->
          IF op \in CreatedBy(txs)
          THEN Entry(MakeCoin(op[1], op[2], BlockIndex[b].nHeight), TRUE, FALSE)
          ELSE IF op \in SpentBy(txs) THEN Entry(NullCoin, TRUE, FALSE)
          ELSE cc[op]]

\* the authoritative view after the transactions of block b are undone
UndoBlock(cc, b) ==
    LET txs == BlockIndex[b].vtx
        changed == SpentBy(txs) \cup CreatedBy(txs)
        before == ChainUtxo(BlockIndex[b].pprev)
    IN [op \in DOMAIN cc \cup changed |->
          IF op \in CreatedBy(txs) THEN Entry(NullCoin, TRUE, FALSE)
          ELSE IF op \in SpentBy(txs) THEN Entry(before[op], TRUE, FALSE)
          ELSE cc[op]]

\* a block is connected on top of the tip (under cs_main)
ConnectBlock(b) ==
    /\ ~fWarmup
    /\ BlockIndex[b].pprev = chainTip
    /\ chainTip' = b
    /\ cacheCoins' = ApplyBlock(cacheCoins, b)
    /\ mempool' = mempool \ BlockIndex[b].vtx
    /\ UNCHANGED <<coinsDB, fWarmup>>
    /\ UNCHANGED restVars
    /\ UNCHANGED handlerVars
    /\ UNCHANGED coreVars

\* the tip is disconnected (under cs_main); its transactions return to the pool
DisconnectTip ==
    /\ ~fWarmup
    /\ chainTip # Genesis
    /\ chainTip' = BlockIndex[chainTip].pprev
    /\ cacheCoins' = UndoBlock(cacheCoins, chainTip)
    /\ mempool' = mempool \cup BlockIndex[chainTip].vtx
    /\ UNCHANGED <<coinsDB, fWarmup>>
    /\ UNCHANGED restVars
    /\ UNCHANGED handlerVars
    /\ UNCHANGED coreVars

\* a transaction enters the pool: its inputs exist (confirmed or pooled) and no
\* pooled transaction consumes them
AcceptToMemoryPool(t) ==
    /\ ~fWarmup
    /\ t \notin mempool
    /\ t \notin ConfirmedTxs(chainTip)
    /\ TxIn[t] # {}
    /\ \A op \in TxIn[t] : /\ ~isSpent(mempool, op)
                           /\ MempoolGetCoin(mempool, cacheCoins, coinsDB, op).found
    /\ mempool' = mempool \cup {t}
    /\ UNCHANGED <<chainTip, coinsDB, cacheCoins, fWarmup>>
    /\ UNCHANGED restVars
    /\ UNCHANGED handlerVars
    /\ UNCHANGED coreVars

\* a pooled transaction nobody in the pool depends on is dropped
RemoveFromMempool(t) ==
    /\ t \in mempool
    /\ ~\E u \in mempool : TxIn[u] \cap CreatedBy({t}) # {}
    /\ mempool' = mempool \ {t}
    /\ UNCHANGED <<chainTip, coinsDB, cacheCoins, fWarmup>>
    /\ UNCHANGED restVars
    /\ UNCHANGED handlerVars
    /\ UNCHANGED coreVars

\* pcoinsTip->Flush(): the cache is written to the backing store and emptied
FlushStateToDisk ==
    /\ ~fWarmup
    /\ coinsDB' = BatchWrite(coinsDB, cacheCoins)
    /\ cacheCoins' = NoEntries
    /\ UNCHANGED <<chainTip, mempool, fWarmup>>
    /\ UNCHANGED restVars
    /\ UNCHANGED handlerVars
    /\ UNCHANGED coreVars

\* SetRPCWarmupFinished
FinishWarmup ==
    /\ fWarmup
    /\ fWarmup' = FALSE
    /\ UNCHANGED ledgerVars
    /\ UNCHANGED restVars
    /\ UNCHANGED handlerVars
    /\ UNCHANGED coreVars

(***************************************************************************)
(* Initial states                                                          *)
(***************************************************************************)
(***************************************************************************)
(* The other REST handlers: rest_headers, rest_block, rest_tx,             *)
(* rest_chaininfo, rest_mempool_info, rest_mempool_contents                *)
(***************************************************************************)
HTTP_BAD_REQUEST == 400

\* rest_headers: the largest count it serves
MaxHeadersCount == 2000

\* CChain::operator[]: the block of the active chain at a height, or none
RECURSIVE ChainAt(_, _)
ChainAt(tip, h) ==
    IF tip = NoBlock THEN NoBlock
    ELSE IF BlockIndex[tip].nHeight = h THEN tip
    ELSE IF BlockIndex[tip].nHeight < h THEN NoBlock
    ELSE ChainAt(BlockIndex[tip].pprev, h)

\* CChain::Contains and CChain::Next
ChainContains(tip, pindex) == ChainAt(tip, BlockIndex[pindex].nHeight) = pindex
ChainNext(tip, pindex) ==
    IF ChainContains(tip, pindex) THEN ChainAt(tip, BlockIndex[pindex].nHeight + 1)
    ELSE NoBlock

\* a hash string of the URI: hex or not, and the block or transaction it names
HashStrings ==
    [hex : {TRUE}, block : Blocks \cup {NoBlock}, tx : {0}] \cup
    [hex : {TRUE}, block : {NoBlock}, tx : TxIds] \cup
    [hex : {FALSE}, block : {NoBlock}, tx : {0}]

ParseHashStr(hashStr) == hashStr.hex
LookupBlockIndex(hashStr) == hashStr.block

\* strtol(s, NULL, 10): blanks, a sign, then digits up to the first other character
DigitValue == [c \in {"0", "1", "2", "3", "4", "5", "6", "7", "8", "9"} |->
                 CASE c = "0" -> 0 [] c = "1" -> 1 [] c = "2" -> 2 [] c = "3" -> 3
                   [] c = "4" -> 4 [] c = "5" -> 5 [] c = "6" -> 6 [] c = "7" -> 7
                   [] c = "8" -> 8 [] OTHER -> 9]

RECURSIVE SkipBlanks(_, _)
SkipBlanks(str, i) ==
    IF i <= Len(str) /\ str[i] = " " THEN SkipBlanks(str, i + 1) ELSE i

RECURSIVE StrtolDigits(_, _, _)
StrtolDigits(str, i, acc) ==
    IF i > Len(str) \/ str[i] \notin DOMAIN DigitValue THEN acc
    ELSE StrtolDigits(str, i + 1, acc * 10 + DigitValue[str[i]])

strtol(str) ==
    LET i == SkipBlanks(str, 1)
        signed == i <= Len(str) /\ str[i] \in {"-", "+"}
        v == StrtolDigits(str, IF signed THEN i + 1 ELSE i, 0)
    IN IF signed /\ str[i] = "-" THEN 0 - v ELSE v

\* (mutant) the lower end of the range off by one: a count of 0 passes
CountInRange_ZeroPasses(count) == ~(count < 0 \/ count > MaxHeadersCount)

\* rest_headers: count < 1 || count > 2000 is refused
CountInRange(count) == ~(count < 1 \/ count > MaxHeadersCount)

\* rest_headers: the loop under cs_main
RECURSIVE HeadersLoop(_, _, _, _)
HeadersLoop(pindex, tip, count, headers) ==
    IF pindex = NoBlock \/ ~ChainContains(tip, pindex) THEN headers
    ELSE LET pushed == Append(headers, pindex)
         IN IF Len(pushed) = count THEN pushed
            ELSE HeadersLoop(ChainNext(tip, pindex), tip, count, pushed)

\* the count strings and the requests the model sends to these handlers
CountStrings ==
    {<<>>, <<"0">>, <<"1">>, <<"2">>, <<"3">>, <<"4">>, <<"2", "0", "0", "0">>,
     <<"2", "0", "0", "1">>, <<"-", "1">>, <<"+", "2">>, <<" ", "3">>, <<"2", "x">>,
     <<"x", "2">>}

Handlers == {"tx", "block", "block/notxdetails", "chaininfo", "mempool/info",
             "mempool/contents", "headers"}

NoHash == [hex |-> FALSE, block |-> NoBlock, tx |-> 0]

\* handler, format suffix, number of "/"-separated parts of params[0], and what
\* the handler takes from them
HandlerRequests ==
    [handler : {"headers"}, fmt : Formats, parts : {2}, count : CountStrings,
     hash : HashStrings] \cup
    [handler : {"headers"}, fmt : Formats, parts : {1, 3}, count : {<<"2">>},
     hash : {NoHash}] \cup
    [handler : {"tx", "block", "block/notxdetails"}, fmt : Formats, parts : {1},
     count : {<<>>}, hash : HashStrings] \cup
    [handler : {"chaininfo", "mempool/info", "mempool/contents"}, fmt : Formats,
     parts : {1}, count : {<<>>}, hash : {NoHash}]

NoHandlerRequest == [handler |-> "none", fmt |-> "", parts |-> 0, count |-> <<>>,
                     hash |-> NoHash]

NoHandlerCall ==
    [handler |-> "none", pc |-> "idle", in |-> NoHandlerRequest, rf |-> "RF_UNDEF",
     count |-> 0, headers |-> <<>>, collectedAt |-> NoBlock, touched |-> {},
     replies |-> <<>>, ret |-> FALSE]

\* the reply of a successful path: WriteHeader, WriteReply(HTTP_OK, ...), return true
OkReply(fmt) ==
    [status |-> HTTP_OK, ret |-> TRUE, message |-> "", contentType |-> ContentType(fmt),
     chainHeight |-> -1, chaintipHash |-> NoBlock]

\* a reply is written and the handler returns what the reply path returns
WriteReply(call, r) ==
    [call EXCEPT !.replies = Append(@, r), !.ret = r.ret, !.pc = "done"]

\* each handler from ParseDataFormat to its first use of shared state
HandlerParse(in) ==
    LET fmt == ParseDataFormat(in.fmt)
        ok == [err |-> FALSE, reply |-> NoReply, rf |-> fmt, count |-> 0]
        bad(status, message) ==
            [err |-> TRUE, reply |-> RESTERR(status, message), rf |-> fmt, count |-> 0]
    IN CASE in.handler = "headers" ->
              IF in.parts # 2 THEN bad(HTTP_BAD_REQUEST, "No header count specified")
              ELSE IF ~CountInRange(strtol(in.count))
              THEN bad(HTTP_BAD_REQUEST, "Header count out of range")
              ELSE IF ~ParseHashStr(in.hash) THEN bad(HTTP_BAD_REQUEST, "Invalid hash")
              ELSE [ok EXCEPT !.count = strtol(in.count)]
         [] in.handler \in {"tx", "block", "block/notxdetails"} ->
              IF ~ParseHashStr(in.hash) THEN bad(HTTP_BAD_REQUEST, "Invalid hash")
              ELSE ok
         [] OTHER ->
              IF fmt # "RF_JSON" THEN bad(HTTP_NOT_FOUND, "output format not found")
              ELSE ok

\* a request reaches one of the handlers
HandlerStart ==
    /\ pc = "idle"
    /\ hcall.pc = "idle"
    /\ \E in \in HandlerRequests :
         LET call == [NoHandlerCall EXCEPT !.handler = in.handler, !.in = in]
             p == HandlerParse(in)
         IN hcall' =
              IF ~CheckWarmup(fWarmup)
              THEN WriteReply(call, RESTERR(HTTP_SERVICE_UNAVAILABLE,
                                            "Service temporarily unavailable"))
              ELSE IF p.err THEN WriteReply([call EXCEPT !.rf = p.rf], p.reply)
              ELSE [call EXCEPT !.rf = p.rf, !.count = p.count, !.pc = "parsed"]
    /\ UNCHANGED <<restVars, nReplies, ledgerVars, fWarmup, coreVars>>

\* rest_headers: the headers are collected under cs_main
HeadersCollect ==
    /\ hcall.pc = "parsed"
    /\ hcall.handler = "headers"
    /\ hcall' = [hcall EXCEPT
                   !.headers = HeadersLoop(LookupBlockIndex(hcall.in.hash), chainTip,
                                           hcall.count, <<>>),
                   !.collectedAt = chainTip,
                   !.touched = @ \cup {"cs_main", "mapBlockIndex", "chainActive"},
                   !.pc = "collected"]
    /\ UNCHANGED <<restVars, nReplies, ledgerVars, fWarmup, coreVars>>

\* rest_block: the block is looked up and read from disk under cs_main; whether
\* its data is on disk and readable is the environment's choice
BlockRead ==
    /\ hcall.pc = "parsed"
    /\ hcall.handler \in {"block", "block/notxdetails"}
    /\ \E haveData \in BOOLEAN, readOk \in BOOLEAN :
         LET t == [hcall EXCEPT !.touched = @ \cup {"cs_main", "mapBlockIndex"}]
         IN hcall' =
              IF LookupBlockIndex(hcall.in.hash) = NoBlock
              THEN WriteReply(t, RESTERR(HTTP_NOT_FOUND, "not found"))
              ELSE IF ~haveData
              THEN WriteReply(t, RESTERR(HTTP_NOT_FOUND, "not available (pruned data)"))
              ELSE IF ~readOk
              THEN WriteReply([t EXCEPT !.touched = @ \cup {"disk"}],
                              RESTERR(HTTP_NOT_FOUND, "not found"))
              ELSE [t EXCEPT !.touched = @ \cup {"disk"}, !.pc = "collected"]
    /\ UNCHANGED <<restVars, nReplies, ledgerVars, fWarmup, coreVars>>

\* rest_tx: GetTransaction looks in the pool and in the chain
TxRead ==
    /\ hcall.pc = "parsed"
    /\ hcall.handler = "tx"
    /\ LET t == [hcall EXCEPT !.touched = @ \cup {"cs_main", "mempool", "chainActive"}]
       IN hcall' =
            IF hcall.in.hash.tx \in mempool \cup ConfirmedTxs(chainTip)
            THEN [t EXCEPT !.pc = "collected"]
            ELSE WriteReply(t, RESTERR(HTTP_NOT_FOUND, "not found"))
    /\ UNCHANGED <<restVars, nReplies, ledgerVars, fWarmup, coreVars>>

\* rest_chaininfo, rest_mempool_info, rest_mempool_contents: case RF_JSON
InfoRead ==
    /\ hcall.pc = "parsed"
    /\ hcall.handler \in {"chaininfo", "mempool/info", "mempool/contents"}
    /\ hcall' = [hcall EXCEPT
                   !.touched = @ \cup (IF hcall.handler = "chaininfo"
                                       THEN {"cs_main", "chainActive"} ELSE {"mempool"}),
                   !.pc = "collected"]
    /\ UNCHANGED <<restVars, nReplies, ledgerVars, fWarmup, coreVars>>

\* the format switch that ends rest_headers, rest_block and rest_tx, and the
\* RF_JSON case of the other three
HandlerReply ==
    /\ hcall.pc = "collected"
    /\ hcall' =
         IF hcall.rf \in {"RF_BINARY", "RF_HEX", "RF_JSON"}
         THEN WriteReply([hcall EXCEPT !.touched =
                            @ \cup (IF hcall.rf = "RF_JSON" /\ hcall.handler \in
                                         {"tx", "block", "block/notxdetails"}
                                    THEN {"cs_main"} ELSE {})],
                         OkReply(hcall.rf))
         ELSE WriteReply(hcall, RESTERR(HTTP_NOT_FOUND, "output format not found"))
    /\ UNCHANGED <<restVars, nReplies, ledgerVars, fWarmup, coreVars>>

\* the handler has returned
HandlerFinish ==
    /\ hcall.pc = "done"
    /\ hcall' = NoHandlerCall
    /\ UNCHANGED <<restVars, nReplies, ledgerVars, fWarmup, coreVars>>

(***************************************************************************)
(* llmq: InitLLMQSystem, DestroyLLMQSystem, StartLLMQSystem,               *)
(* StopLLMQSystem (src/src/llmq/quorums_init.cpp)                          *)
(***************************************************************************)
MaxAllocs == 4

nullptr == 0

\* no object on the heap
NoObjects == [id \in {} |-> [running |-> FALSE]]

\* blsWorker is a namespace-scope pointer (zero-initialized), quorumBlockProcessor
\* an empty unique_ptr; workers and processors are the objects alive on the heap
NoLLMQ ==
    [blsWorker |-> nullptr, quorumBlockProcessor |-> nullptr, workers |-> NoObjects,
     processors |-> {}, allocs |-> 0,
     last |-> [op |-> "none", hadWorker |-> FALSE, acted |-> FALSE]]

\* delete p: the object leaves the heap; delete nullptr does nothing
Delete(objects, ptr) == [id \in DOMAIN objects \ {ptr} |-> objects[id]]

\* InitLLMQSystem: a new worker is assigned to blsWorker; reset(new ...) deletes
\* the processor the unique_ptr held
InitLLMQSystemBody(l) ==
    [l EXCEPT !.blsWorker = l.allocs + 1,
              !.workers = @ @@ ((l.allocs + 1) :> [running |-> FALSE]),
              !.quorumBlockProcessor = l.allocs + 1,
              !.processors = (@ \ {l.quorumBlockProcessor}) \cup {l.allocs + 1},
              !.allocs = @ + 1,
              !.last = [op |-> "Init", hadWorker |-> l.blsWorker # nullptr,
                        acted |-> TRUE]]

\* DestroyLLMQSystem: reset(), delete blsWorker, blsWorker = nullptr
DestroyLLMQSystemBody(l) ==
    [l EXCEPT !.quorumBlockProcessor = nullptr,
              !.processors = @ \ {l.quorumBlockProcessor},
              !.workers = Delete(@, l.blsWorker),
              !.blsWorker = nullptr,
              !.last = [op |-> "Destroy", hadWorker |-> l.blsWorker # nullptr,
                        acted |-> l.blsWorker # nullptr]]

\* StartLLMQSystem: if (blsWorker) blsWorker->Start()
StartLLMQSystemBody(l) ==
    IF l.blsWorker # nullptr
    THEN [l EXCEPT !.workers[l.blsWorker].running = TRUE,
                   !.last = [op |-> "Start", hadWorker |-> TRUE, acted |-> TRUE]]
    ELSE [l EXCEPT !.last = [op |-> "Start", hadWorker |-> FALSE, acted |-> FALSE]]

\* StopLLMQSystem: if (blsWorker) blsWorker->Stop()
StopLLMQSystemBody(l) ==
    IF l.blsWorker # nullptr
    THEN [l EXCEPT !.workers[l.blsWorker].running = FALSE,
                   !.last = [op |-> "Stop", hadWorker |-> TRUE, acted |-> TRUE]]
    ELSE [l EXCEPT !.last = [op |-> "Stop", hadWorker |-> FALSE, acted |-> FALSE]]

InitLLMQSystem ==
    /\ llmq.allocs < MaxAllocs
    /\ llmq' = InitLLMQSystemBody(llmq)
    /\ UNCHANGED <<ledgerVars, restVars, handlerVars, fWarmup, stakeVars, viewVars, uniqVars>>

DestroyLLMQSystem ==
    /\ llmq' = DestroyLLMQSystemBody(llmq)
    /\ UNCHANGED <<ledgerVars, restVars, handlerVars, fWarmup, stakeVars, viewVars, uniqVars>>

StartLLMQSystem ==
    /\ llmq' = StartLLMQSystemBody(llmq)
    /\ UNCHANGED <<ledgerVars, restVars, handlerVars, fWarmup, stakeVars, viewVars, uniqVars>>

StopLLMQSystem ==
    /\ llmq' = StopLLMQSystemBody(llmq)
    /\ UNCHANGED <<ledgerVars, restVars, handlerVars, fWarmup, stakeVars, viewVars, uniqVars>>

InitRest ==
    /\ pc = "idle"
    /\ reqIn = NoRequest
    /\ rf = "RF_UNDEF"
    /\ fCheckMemPool = FALSE
    /\ vOutPoints = <<>>
    /\ hits = <<>>
    /\ bitmap = <<>>
    /\ bitmapStringRepresentation = <<>>
    /\ outs = <<>>
    /\ reply = NoReply
    /\ touched = Untouched
    /\ nReplies = 0

InitLedger ==
    /\ chainTip = Genesis
    /\ coinsDB = ChainUtxo(Genesis)
    /\ cacheCoins = NoEntries
    /\ mempool = {}

InitCore ==
    /\ stake = 0
    /\ stakeCall = 0
    /\ viewBase = EmptyMap
    /\ viewCache = NoEntries
    /\ viewDirect = EmptyMap
    /\ viewLast = 0
    /\ uniq = 0
    /\ stakeChain = <<>>
    /\ uniqLast = 0
    /\ llmq = 0

(***************************************************************************)
(* Spec: rest_getutxos served while blocks connect and the pool changes    *)
(***************************************************************************)
Init ==
    /\ InitLedger
    /\ InitRest
    /\ InitCore
    /\ hcall = 0
    /\ fWarmup = TRUE

Next ==
    \/ Start(ShortRequests)
    \/ Lookup
    \/ ReadHeight
    \/ ReadTip
    \/ Finish
    \/ \E b \in Blocks : ConnectBlock(b)
    \/ DisconnectTip
    \/ \E t \in TxIds : AcceptToMemoryPool(t)
    \/ \E t \in TxIds : RemoveFromMempool(t)
    \/ FlushStateToDisk
    \/ FinishWarmup

Spec == Init /\ [][Next]_vars

\* SpecOverlay: the same handler and ledger, the pool shrinking only as blocks
\* confirm its transactions
NextOverlay ==
    \/ Start(ShortRequests)
    \/ Lookup
    \/ ReadHeight
    \/ ReadTip
    \/ Finish
    \/ \E b \in Blocks : ConnectBlock(b)
    \/ DisconnectTip
    \/ \E t \in TxIds : AcceptToMemoryPool(t)
    \/ FlushStateToDisk
    \/ FinishWarmup

SpecOverlay == Init /\ [][NextOverlay]_vars

(***************************************************************************)
(* SpecLookup: rest_getutxos with requests of up to MaxReqLen outpoints,   *)
(* against each ledger the node can be in (flushed, warmed up), at rest    *)
(***************************************************************************)
\* a pool the chain ending in tip admits: unconfirmed transactions whose inputs
\* are unspent outputs of the chain or of the pool
PoolValid(tip, pool) ==
    /\ pool \cap ConfirmedTxs(tip) = {}
    /\ \A t \in pool : /\ TxIn[t] # {}
                       /\ TxIn[t] \subseteq DOMAIN ChainUtxo(tip) \cup CreatedBy(pool)

InitLookup ==
    /\ chainTip \in Blocks
    /\ mempool \in {pool \in SUBSET TxIds : PoolValid(chainTip, pool)}
    /\ coinsDB = ChainUtxo(chainTip)
    /\ cacheCoins = NoEntries
    /\ InitRest
    /\ InitCore
    /\ hcall = 0
    /\ fWarmup = FALSE

NextLookup ==
    \/ Start(LongRequests)
    \/ Lookup
    \/ ReadHeight
    \/ ReadTip
    \/ Finish

SpecLookup == InitLookup /\ [][NextLookup]_vars

(***************************************************************************)
(* Claims about rest_getutxos                                              *)
(***************************************************************************)
\* the lookup of the call in flight has run
LookupDone == touched.lock /\ pc \in {"looked", "gotHeight", "gotTip", "done"}

\* the position, among the coin records, of the record of request position i
RecordOf(h, i) == Cardinality({j \in 1..i : h[j]})
NumHits(h) == Cardinality({j \in 1..Len(h) : h[j]})

\* an output some confirmed transaction created and a later one consumed
AlreadySpent(tip, op) ==
    op \in CreatedBy(ConfirmedTxs(tip)) /\ op \notin DOMAIN ChainUtxo(tip)

\* C1: with or without the mempool option, every requested outpoint that is
\* unspent in the chain's coin set and not consumed by a pooled transaction is a
\* hit with one coin record carrying its confirmation height and value, and every
\* requested outpoint that is already spent is a miss. (SpecLookup: the ledger
\* does not move during the call.)
C1_ConfirmedUnspentIsHit ==
    LookupDone =>
        /\ Len(hits) = Len(vOutPoints)
        /\ Len(outs) = NumHits(hits)
        /\ \A i \in 1..Len(vOutPoints) :
             LET op == vOutPoints[i]
                 utxo == ChainUtxo(chainTip)
             IN /\ (op \in DOMAIN utxo /\ ~isSpent(mempool, op)) =>
                      /\ hits[i]
                      /\ outs[RecordOf(hits, i)].nHeight = utxo[op].nHeight
                      /\ outs[RecordOf(hits, i)].out.nValue = utxo[op].out.nValue
                /\ AlreadySpent(chainTip, op) => ~hits[i]

\* ceil(n / 8), not by the code's (n + 7) / 8
Ceil8(n) == IF n % 8 = 0 THEN n \div 8 ELSE (n \div 8) + 1

\* the coin record a hit on op must carry
RecordFor(checkMemPool, tip, pool, op) ==
    IF checkMemPool /\ op \in CreatedBy(pool)
    THEN [nHeight |-> MEMPOOL_HEIGHT, out |-> TxOut[op[1]][op[2] + 1]]
    ELSE [nHeight |-> ChainUtxo(tip)[op].nHeight, out |-> ChainUtxo(tip)[op].out]

EmptyRequest(r) == r.uriOutpoints = 0 /\ r.bodyKind = "none"

\* the outpoints the request names, the body counted when it is in the encoding
\* its format reads
BodyRead(r) ==
    r.bodyKind = "ser" /\ ((r.fmt = "bin" /\ r.bodyEnc = "raw") \/ (r.fmt = "hex" /\ r.bodyEnc = "hex"))
Offered(r) == r.uriOutpoints + (IF BodyRead(r) THEN r.bodyOutpoints ELSE 0)

Malformed(r) ==
    \/ r.uriMalformed
    \/ EmptyRequest(r)
    \/ r.fmt \notin {"bin", "hex", "json"}
    \/ Offered(r) > 15

C5_MempoolOverlay ==
    (LookupDone /\ fCheckMemPool) =>
        \A i \in 1..Len(vOutPoints) :
            LET op == vOutPoints[i]
                utxo == ChainUtxo(chainTip)
            IN IF op \in CreatedBy(mempool)
               THEN /\ hits[i] <=> ~isSpent(mempool, op)
                    /\ hits[i] => outs[RecordOf(hits, i)].nHeight = MEMPOOL_HEIGHT
               ELSE /\ hits[i] <=> (op \in DOMAIN utxo /\ ~isSpent(mempool, op))
                    /\ hits[i] => outs[RecordOf(hits, i)] =
                                    [nHeight |-> utxo[op].nHeight, out |-> utxo[op].out]

\* C5's case: one request with a pooled output that is a hit, a pooled output a
\* pooled transaction consumes, and a confirmed coin
C5_Witness ==
    /\ pc = "looked"
    /\ fCheckMemPool
    /\ \E i, j \in 1..Len(vOutPoints) :
         /\ vOutPoints[i] \in CreatedBy(mempool) /\ hits[i]
         /\ vOutPoints[j] \in CreatedBy(mempool) /\ ~hits[j]
    /\ \E p \in TxIds : p \in mempool /\ <<p, 0>> \notin SpentBy(mempool)

\* a fresh cache over only the authoritative view
FreshViewGetCoin(cc, db, op) ==
    LET r == CacheGetCoin(NoEntries, op,
                 [found |-> ChainGetCoin(cc, db, op).found,
                  coin |-> ChainGetCoin(cc, db, op).coin])
    IN [found |-> r.found, coin |-> r.coin]

\* C4: a step of the handler leaves the chain's coin set and the pool unchanged:
\* a fresh view over the authoritative backend reports the same coins as before
\* the step, what a flush would write is the same, and no pooled transaction's
\* output is seen through it.
C4_LedgerUntouched ==
    [][pc' # pc =>
         /\ mempool' = mempool
         /\ chainTip' = chainTip
         /\ coinsDB' = coinsDB
         /\ BatchWrite(coinsDB', cacheCoins') = BatchWrite(coinsDB, cacheCoins)
         /\ \A op \in Outpoints :
              /\ FreshViewGetCoin(cacheCoins', coinsDB', op)
                   = FreshViewGetCoin(cacheCoins, coinsDB, op)
              /\ op \in CreatedBy(mempool') =>
                   ~FreshViewGetCoin(cacheCoins', coinsDB', op).found]_vars

\* C4's case: an overlay query has answered a pooled output and filled the
\* authoritative cache on its way to a confirmed coin
C4_Witness ==
    /\ pc = "looked"
    /\ fCheckMemPool
    /\ \E i, j \in 1..Len(vOutPoints) :
         /\ hits[i] /\ outs[RecordOf(hits, i)].nHeight = MEMPOOL_HEIGHT
         /\ vOutPoints[j] \in DOMAIN cacheCoins /\ ~cacheCoins[vOutPoints[j]].dirty

\* C10: the height, the tip hash and the hits of one reply belong to one ledger
\* state: the tip is the block at the reported height and every confirmed coin
\* reported is unspent at that tip.
C10_ConsistentSnapshot ==
    (pc = "done" /\ reply.status = HTTP_OK) =>
        /\ reply.chainHeight = BlockIndex[reply.chaintipHash].nHeight
        /\ \A i \in 1..Len(vOutPoints) :
             (hits[i] /\ outs[RecordOf(hits, i)].nHeight # MEMPOOL_HEIGHT) =>
                 vOutPoints[i] \in DOMAIN ChainUtxo(reply.chaintipHash)

(***************************************************************************)
(* CLegacyZFlsStake: the legacy shielded stake input                       *)
(***************************************************************************)
\* libzerocoin::CoinDenomination: ZQ_ERROR and the coin denominations
ZQ_ERROR == 0
Denominations == {1, 5, 10}
UINT256_ZERO == 0

\* a zerocoin spend as it comes off the wire
CoinSpends == [denom : Denominations, serial : {11, 12}, checksum : {7, 8}]

\* CLegacyZFlsStake(): the member initializers
DefaultStake == [nChecksum |-> 0, denom |-> ZQ_ERROR, hashSerial |-> UINT256_ZERO]

\* the hash of a coin serial number (never UINT256_ZERO)
SerialHash(serial) == 1000 + serial

\* CLegacyZFlsStake(const CoinSpend&): the fields are taken from the spend
StakeFromSpend(spend) ==
    [nChecksum |-> spend.checksum, denom |-> spend.denom,
     hashSerial |-> SerialHash(spend.serial)]

\* a transaction input: a zerocoin spend, or a plain reference to an outpoint
TxIns == [isZerocoinSpend : {TRUE}, spend : CoinSpends, prevout : {<<0, 0>>}] \cup
         [isZerocoinSpend : {FALSE}, spend : {[denom |-> 1, serial |-> 11, checksum |-> 7]},
          prevout : {<<1, 0>>, <<2, 0>>}]

\* InitFromTxIn: a zerocoin spend input fills the fields, anything else is refused
InitFromTxIn(self, txin) ==
    IF txin.isZerocoinSpend
    THEN [ret |-> TRUE, self |-> StakeFromSpend(txin.spend)]
    ELSE [ret |-> FALSE, self |-> self]

\* (mutant) creation left enabled for a stake built from a spend
CreateTxIn_Enabled(self, pwallet, txIn, hashTxOut) ==
    IF self.denom # ZQ_ERROR
    THEN [ret |-> TRUE,
          out |-> [isZerocoinSpend |-> TRUE,
                   spend |-> [denom |-> self.denom, serial |-> 11, checksum |-> self.nChecksum],
                   prevout |-> <<0, 0>>]]
    ELSE [ret |-> FALSE, out |-> txIn]

\* CreateTxIn: return false, creation disabled; txIn is not written
CreateTxIn(self, pwallet, txIn, hashTxOut) == [ret |-> FALSE, out |-> txIn]

\* (mutant) outputs appended before the refusal
CreateTxOuts_Appends(self, pwallet, vout, nTotal, onlyP2PK) ==
    [ret |-> FALSE, out |-> Append(vout, [nValue |-> nTotal, scriptPubKey |-> 0])]

\* CreateTxOuts: return false, creation disabled; vout is not written
CreateTxOuts(self, pwallet, vout, nTotal, onlyP2PK) == [ret |-> FALSE, out |-> vout]

\* (mutant) the origin output reported for a stake built from a spend
GetTxOutFrom_Available(self, out) ==
    IF self.hashSerial # UINT256_ZERO
    THEN [ret |-> TRUE, out |-> [nValue |-> self.denom, scriptPubKey |-> 0]]
    ELSE [ret |-> FALSE, out |-> out]

\* GetTxOutFrom: return false, not available; out is not written
GetTxOutFrom(self, out) == [ret |-> FALSE, out |-> out]

\* the arguments the model passes
Wallets == {"nullptr", "wallet"}
TxOutValues == {[nValue |-> -1, scriptPubKey |-> 0], [nValue |-> 100, scriptPubKey |-> 9]}
VoutValues == {<<>>, <<[nValue |-> 100, scriptPubKey |-> 9]>>}

NoCall == [op |-> "none", ret |-> FALSE, before |-> 0, after |-> 0, object |-> "none"]

\* how the object came to its state: "default", "spend" or "txin"
Construct ==
    /\ stake' = [fields |-> DefaultStake, from |-> "default"]
    /\ stakeCall' = NoCall
    /\ UNCHANGED <<ledgerVars, restVars, handlerVars, fWarmup, viewVars, uniqVars, llmqVars>>

ConstructFromSpend ==
    /\ \E spend \in CoinSpends : stake' = [fields |-> StakeFromSpend(spend), from |-> "spend"]
    /\ stakeCall' = NoCall
    /\ UNCHANGED <<ledgerVars, restVars, handlerVars, fWarmup, viewVars, uniqVars, llmqVars>>

CallInitFromTxIn ==
    /\ \E txin \in TxIns :
         LET r == InitFromTxIn(stake.fields, txin)
         IN /\ stake' = [fields |-> r.self, from |-> IF r.ret THEN "txin" ELSE stake.from]
            /\ stakeCall' = [op |-> "InitFromTxIn", ret |-> r.ret, before |-> 0, after |-> 0,
                            object |-> stake.from]
    /\ UNCHANGED <<ledgerVars, restVars, handlerVars, fWarmup, viewVars, uniqVars, llmqVars>>

CallCreateTxIn ==
    /\ \E pwallet \in Wallets, txIn \in TxIns, hashTxOut \in {UINT256_ZERO, 77} :
         LET r == CreateTxIn(stake.fields, pwallet, txIn, hashTxOut)
         IN stakeCall' = [op |-> "CreateTxIn", ret |-> r.ret, before |-> txIn,
                          after |-> r.out, object |-> stake.from]
    /\ UNCHANGED stake
    /\ UNCHANGED <<ledgerVars, restVars, handlerVars, fWarmup, viewVars, uniqVars, llmqVars>>

CallCreateTxOuts ==
    /\ \E pwallet \in Wallets, vout \in VoutValues, nTotal \in {0, 100},
          onlyP2PK \in BOOLEAN :
         LET r == CreateTxOuts(stake.fields, pwallet, vout, nTotal, onlyP2PK)
         IN stakeCall' = [op |-> "CreateTxOuts", ret |-> r.ret, before |-> vout,
                          after |-> r.out, object |-> stake.from]
    /\ UNCHANGED stake
    /\ UNCHANGED <<ledgerVars, restVars, handlerVars, fWarmup, viewVars, uniqVars, llmqVars>>

CallGetTxOutFrom ==
    /\ \E out \in TxOutValues :
         LET r == GetTxOutFrom(stake.fields, out)
         IN stakeCall' = [op |-> "GetTxOutFrom", ret |-> r.ret, before |-> out,
                          after |-> r.out, object |-> stake.from]
    /\ UNCHANGED stake
    /\ UNCHANGED <<ledgerVars, restVars, handlerVars, fWarmup, viewVars, uniqVars, llmqVars>>

InitIdleNode ==
    /\ InitLedger
    /\ InitRest
    /\ fWarmup = TRUE
    /\ hcall = 0
    /\ llmq = 0

InitView ==
    /\ viewBase = EmptyMap
    /\ viewCache = NoEntries
    /\ viewDirect = EmptyMap
    /\ viewLast = 0

InitUniq ==
    /\ uniq = 0
    /\ stakeChain = <<>>
    /\ uniqLast = 0

InitStake ==
    /\ InitIdleNode
    /\ InitView
    /\ InitUniq
    /\ stake = [fields |-> DefaultStake, from |-> "default"]
    /\ stakeCall = NoCall

NextStake ==
    \/ Construct
    \/ ConstructFromSpend
    \/ CallInitFromTxIn
    \/ CallCreateTxIn
    \/ CallCreateTxOuts
    \/ CallGetTxOutFrom

SpecStake == InitStake /\ [][NextStake]_vars

\* C6: CreateTxIn, CreateTxOuts and GetTxOutFrom return the failure result for
\* every input and in every object state, and leave txIn, vout and out unmodified.
C6_CreationDisabled ==
    stakeCall.op \in {"CreateTxIn", "CreateTxOuts", "GetTxOutFrom"} =>
        /\ stakeCall.ret = FALSE
        /\ stakeCall.after = stakeCall.before

\* C6's case: CreateTxIn called on a stake initialized from a transaction input
C6_Witness ==
    /\ stakeCall.op = "CreateTxIn"
    /\ stakeCall.object = "txin"
    /\ stake.fields.denom # ZQ_ERROR
    /\ stakeCall.before.isZerocoinSpend

(***************************************************************************)
(* The Coin View cache over a parent: AddCoin, SpendCoin, GetCoin, Flush   *)
(* (spec 4.1), next to the same operations applied to the parent alone     *)
(***************************************************************************)
ViewOutpoints == {<<1, 0>>, <<2, 0>>}
ViewHeights == {100, 101}
ViewCoins(op) == {MakeCoin(op[1], op[2], h) : h \in ViewHeights}

\* the parents a cache can be chained over: each outpoint absent or one record
ViewParents ==
    UNION {{p \in [d -> UNION {ViewCoins(o) : o \in d}] : \A o \in d : p[o] \in ViewCoins(o)}
           : d \in SUBSET ViewOutpoints}

\* AddCoin: a new entry, dirty and fresh, unless an unspent entry is found and
\* possibleOverwrite is false (the consensus-fatal collision)
AddCoin(cache, op, coin, possibleOverwrite) ==
    IF op \in DOMAIN cache /\ ~IsSpent(cache[op].coin) /\ ~possibleOverwrite
    THEN [ok |-> FALSE, cache |-> cache]
    ELSE [ok |-> TRUE,
          cache |-> [o \in DOMAIN cache \cup {op} |->
                       IF o = op THEN Entry(coin, TRUE, TRUE) ELSE cache[o]]]

\* SpendCoin: a fresh entry is erased outright, any other is marked dirty and spent
SpendCoin(cache, op, fromParent) ==
    LET c == FetchCoin(cache, op, fromParent)
    IN IF op \notin DOMAIN c THEN [ok |-> FALSE, cache |-> c]
       ELSE IF c[op].fresh
            THEN [ok |-> TRUE, cache |-> [o \in DOMAIN c \ {op} |-> c[o]]]
            ELSE [ok |-> TRUE, cache |-> [c EXCEPT ![op] = Entry(NullCoin, TRUE, FALSE)]]

\* (mutant) a failing flush that has already written one of the dirty entries
FlushFailed_Partial(parent, cache) ==
    LET dirty == {op \in DOMAIN cache : cache[op].dirty}
        first == IF dirty = {} THEN {} ELSE {CHOOSE op \in dirty : TRUE}
    IN [ok |-> FALSE,
        parent |-> BatchWrite(parent, [o \in first |-> cache[o]]),
        cache |-> [o \in DOMAIN cache \ first |-> cache[o]]]

\* Flush on a backing-store write failure: nothing is committed, the cache is kept
FlushFailed(parent, cache) == [ok |-> FALSE, parent |-> parent, cache |-> cache]

\* Flush: every dirty entry goes to the parent and the cache is emptied
Flush(parent, cache) ==
    [ok |-> TRUE, parent |-> BatchWrite(parent, cache), cache |-> NoEntries]

\* the same operations on the parent alone
DirectAdd(parent, op, coin) ==
    [o \in DOMAIN parent \cup {op} |-> IF o = op THEN coin ELSE parent[o]]
DirectSpend(parent, op) == [o \in DOMAIN parent \ {op} |-> parent[o]]

AddCoinCalls == [op : ViewOutpoints, h : ViewHeights, possibleOverwrite : BOOLEAN]

\* AddCoin is called without possibleOverwrite only where no coin is known at
\* the outpoint, or where the cache itself holds one and refuses
DoAddCoin ==
    /\ \E c \in AddCoinCalls :
         LET coin == MakeCoin(c.op[1], c.op[2], c.h)
             r == AddCoin(viewCache, c.op, coin, c.possibleOverwrite)
         IN /\ \/ c.possibleOverwrite
               \/ c.op \notin DOMAIN viewDirect
               \/ ~r.ok
            /\ viewCache' = r.cache
            /\ viewDirect' = IF r.ok THEN DirectAdd(viewDirect, c.op, coin) ELSE viewDirect
            /\ viewLast' = [op |-> "AddCoin", ok |-> r.ok, outpoint |-> c.op]
    /\ UNCHANGED viewBase
    /\ UNCHANGED <<ledgerVars, restVars, handlerVars, fWarmup, stakeVars, uniqVars, llmqVars>>

DoSpendCoin ==
    /\ \E op \in ViewOutpoints :
         LET r == SpendCoin(viewCache, op, DBGetCoin(viewBase, op))
         IN /\ viewCache' = r.cache
            /\ viewDirect' = DirectSpend(viewDirect, op)
            /\ viewLast' = [op |-> "SpendCoin", ok |-> r.ok, outpoint |-> op]
    /\ UNCHANGED viewBase
    /\ UNCHANGED <<ledgerVars, restVars, handlerVars, fWarmup, stakeVars, uniqVars, llmqVars>>

DoGetCoin ==
    /\ \E op \in ViewOutpoints :
         LET r == CacheGetCoin(viewCache, op, DBGetCoin(viewBase, op))
         IN /\ viewCache' = r.cache
            /\ viewLast' = [op |-> "GetCoin", ok |-> r.found, outpoint |-> op]
    /\ UNCHANGED <<viewBase, viewDirect>>
    /\ UNCHANGED <<ledgerVars, restVars, handlerVars, fWarmup, stakeVars, uniqVars, llmqVars>>

DoFlush ==
    /\ LET r == Flush(viewBase, viewCache)
       IN /\ viewBase' = r.parent
          /\ viewCache' = r.cache
          /\ viewLast' = [op |-> "Flush", ok |-> r.ok, outpoint |-> <<0, 0>>]
    /\ UNCHANGED viewDirect
    /\ UNCHANGED <<ledgerVars, restVars, handlerVars, fWarmup, stakeVars, uniqVars, llmqVars>>

DoFlushFailed ==
    /\ LET r == FlushFailed(viewBase, viewCache)
       IN /\ viewBase' = r.parent
          /\ viewCache' = r.cache
          /\ viewLast' = [op |-> "Flush", ok |-> r.ok, outpoint |-> <<0, 0>>]
    /\ UNCHANGED viewDirect
    /\ UNCHANGED <<ledgerVars, restVars, handlerVars, fWarmup, stakeVars, uniqVars, llmqVars>>

InitCoins ==
    /\ InitIdleNode
    /\ InitUniq
    /\ stake = 0
    /\ stakeCall = 0
    /\ viewBase \in ViewParents
    /\ viewDirect = viewBase
    /\ viewCache = NoEntries
    /\ viewLast = [op |-> "none", ok |-> TRUE, outpoint |-> <<0, 0>>]

NextCoins ==
    \/ DoAddCoin
    \/ DoSpendCoin
    \/ DoGetCoin
    \/ DoFlush
    \/ DoFlushFailed

SpecCoins == InitCoins /\ [][NextCoins]_vars

\* C7: after any sequence of AddCoin / SpendCoin on the cache, a successful Flush
\* leaves the parent equal to the same operations applied to the parent directly,
\* and leaves the cache empty.
C7_FlushPreservesBehaviour ==
    (viewLast.op = "Flush" /\ viewLast.ok) =>
        /\ viewBase = viewDirect
        /\ viewCache = NoEntries

MaxStakeChain == 3

Fingerprints == {"t1", "t2", "z1", "z2"}
NoFingerprints == [f \in {} |-> 0]

Contains(index, f) == f \in DOMAIN index

\* (mutant) a second insert silently overwrites the recorded height
Insert_Overwrite(index, f, height) ==
    [ok |-> TRUE, index |-> [g \in DOMAIN index \cup {f} |-> IF g = f THEN height ELSE index[g]]]

\* Insert: a fingerprint already present is a double-stake and is refused
Insert(index, f, height) ==
    IF Contains(index, f) THEN [ok |-> FALSE, index |-> index]
    ELSE [ok |-> TRUE, index |-> index @@ (f :> height)]

\* Remove: exactly the given fingerprint leaves the index
Remove(index, f) == [g \in DOMAIN index \ {f} |-> index[g]]

\* a block staking fingerprint f is offered on top of the chain: accepted and
\* recorded, or rejected as a whole when the fingerprint is already present
AcceptStakeBlock ==
    /\ Len(stakeChain) < MaxStakeChain
    /\ \E f \in Fingerprints :
         LET r == Insert(uniq, f, Len(stakeChain) + 1)
         IN /\ uniq' = r.index
            /\ stakeChain' = IF r.ok THEN Append(stakeChain, f) ELSE stakeChain
            /\ uniqLast' = [op |-> "Insert", f |-> f, ok |-> r.ok]
    /\ UNCHANGED <<ledgerVars, restVars, handlerVars, fWarmup, stakeVars, viewVars, llmqVars>>

\* the tip is disconnected: only the fingerprint its block recorded is removed
DisconnectStakeBlock ==
    /\ stakeChain # <<>>
    /\ LET f == stakeChain[Len(stakeChain)]
       IN /\ uniq' = Remove(uniq, f)
          /\ uniqLast' = [op |-> "Remove", f |-> f, ok |-> TRUE]
    /\ stakeChain' = SubSeq(stakeChain, 1, Len(stakeChain) - 1)
    /\ UNCHANGED <<ledgerVars, restVars, handlerVars, fWarmup, stakeVars, viewVars, llmqVars>>

\* stake validation asks whether a fingerprint is already recorded
QueryContains ==
    /\ \E f \in Fingerprints :
         uniqLast' = [op |-> "Contains", f |-> f, ok |-> Contains(uniq, f)]
    /\ UNCHANGED <<uniq, stakeChain>>
    /\ UNCHANGED <<ledgerVars, restVars, handlerVars, fWarmup, stakeVars, viewVars, llmqVars>>

InitUniqueness ==
    /\ InitIdleNode
    /\ InitView
    /\ stake = 0
    /\ stakeCall = 0
    /\ uniq = NoFingerprints
    /\ stakeChain = <<>>
    /\ uniqLast = [op |-> "none", f |-> "none", ok |-> TRUE]

NextUniq ==
    \/ AcceptStakeBlock
    \/ DisconnectStakeBlock
    \/ QueryContains

SpecUniq == InitUniqueness /\ [][NextUniq]_vars

Recorded == {stakeChain[i] : i \in 1..Len(stakeChain)}

\* C8: an Insert of a fingerprint that is present fails, rejects the block and
\* leaves the index unchanged; a Remove(f) leaves Contains(f) false and Contains(g)
\* as it was for every other g; so a fingerprint recorded by an accepted block is
\* rejected when a later block replays it.
C8_UniquenessIndex ==
    [][/\ (uniqLast'.op = "Insert" /\ Contains(uniq, uniqLast'.f)) =>
            /\ ~uniqLast'.ok
            /\ uniq' = uniq
            /\ stakeChain' = stakeChain
       /\ (uniqLast'.op = "Insert" /\ uniqLast'.f \in Recorded) =>
            /\ ~uniqLast'.ok
            /\ stakeChain' = stakeChain
       /\ uniqLast'.op = "Remove" =>
            /\ ~Contains(uniq', uniqLast'.f)
            /\ \A g \in Fingerprints \ {uniqLast'.f} :
                 Contains(uniq', g) = Contains(uniq, g)]_vars

\* C8's case: a block replaying a fingerprint recorded two blocks earlier has
\* just been rejected
C8_Witness ==
    /\ uniqLast.op = "Insert"
    /\ ~uniqLast.ok
    /\ Len(stakeChain) >= 2
    /\ stakeChain[1] = uniqLast.f
    /\ Contains(uniq, uniqLast.f)

(***************************************************************************)
(* SpecHeaders: rest_headers and the other handlers while blocks connect   *)
(* and disconnect                                                          *)
(***************************************************************************)
InitHandlers ==
    /\ InitLedger
    /\ InitRest
    /\ InitCore
    /\ hcall = NoHandlerCall
    /\ fWarmup = TRUE

NextHandlers ==
    \/ HandlerStart
    \/ HeadersCollect
    \/ BlockRead
    \/ TxRead
    \/ InfoRead
    \/ HandlerReply
    \/ HandlerFinish
    \/ \E b \in Blocks : ConnectBlock(b)
    \/ DisconnectTip
    \/ \E t \in TxIds : AcceptToMemoryPool(t)
    \/ FinishWarmup

SpecHeaders == InitHandlers /\ [][NextHandlers]_vars

\* the active chain ending in tip, genesis first
RECURSIVE ActiveChain(_)
ActiveChain(tip) ==
    IF tip = NoBlock THEN <<>> ELSE Append(ActiveChain(BlockIndex[tip].pprev), tip)

Min(a, b) == IF a < b THEN a ELSE b

\* the run of the active chain from block b on, at most n long
RunFrom(tip, b, n) ==
    LET chain == ActiveChain(tip)
        at == {i \in 1..Len(chain) : chain[i] = b}
    IN IF at = {} THEN <<>>
       ELSE LET i == CHOOSE j \in at : TRUE
            IN SubSeq(chain, i, i + Min(n, Len(chain) - i + 1) - 1)

HeadersAccepted == hcall.handler = "headers" /\ hcall.pc \in {"parsed", "collected"}
HeadersCollected ==
    /\ hcall.handler = "headers"
    /\ \/ hcall.pc = "collected"
       \/ hcall.pc = "done" /\ hcall.ret

\* C11: rest_headers accepts a count only in 1..2000; the headers of an accepted
\* request are the contiguous ascending run of the active chain (as it was when
\* they were collected) from the requested block on, min(count, blocks up to the
\* tip) long, and empty when the hash is unknown or off the active chain.
C11_HeadersRun ==
    /\ (HeadersAccepted \/ HeadersCollected) =>
          /\ strtol(hcall.in.count) \in 1..2000
          /\ hcall.count = strtol(hcall.in.count)
    /\ HeadersCollected =>
          /\ hcall.headers = RunFrom(hcall.collectedAt, hcall.in.hash.block, hcall.count)
          /\ \A i \in 1..Len(hcall.headers) :
               hcall.headers[i] \in {ActiveChain(hcall.collectedAt)[j] :
                                       j \in 1..Len(ActiveChain(hcall.collectedAt))}
          /\ (hcall.in.hash.block = NoBlock) => hcall.headers = <<>>

\* C11's case: two headers were asked from the block below the tip of a three
\* block chain and two were returned, after which the tip was disconnected
C11_Witness ==
    /\ hcall.handler = "headers"
    /\ hcall.pc = "done"
    /\ hcall.ret
    /\ hcall.count = 2
    /\ hcall.headers = <<"a1", "a2">>
    /\ chainTip # "a2"

(***************************************************************************)
(* SpecLLMQ: any sequence of the four llmq lifecycle calls                 *)
(***************************************************************************)
InitLLMQ ==
    /\ InitLedger
    /\ InitRest
    /\ fWarmup = TRUE
    /\ hcall = 0
    /\ llmq = NoLLMQ
    /\ InitView
    /\ InitUniq
    /\ stake = 0
    /\ stakeCall = 0

NextLLMQ ==
    \/ InitLLMQSystem
    \/ StartLLMQSystem
    \/ StopLLMQSystem
    \/ DestroyLLMQSystem

SpecLLMQ == InitLLMQ /\ [][NextLLMQ]_vars

\* C12: Start and Stop act only on a live worker and do nothing when there is
\* none; Destroy leaves blsWorker null and the block processor released; there
\* is never more than one live worker, and every live worker is the one
\* blsWorker points to.
C12_OneWorker ==
    /\ llmq.last.op \in {"Start", "Stop"} => llmq.last.acted = llmq.last.hadWorker
    /\ llmq.last.op = "Destroy" =>
          /\ llmq.blsWorker = nullptr
          /\ llmq.quorumBlockProcessor = nullptr
          /\ llmq.processors = {}
    /\ Cardinality(DOMAIN llmq.workers) <= 1
    /\ DOMAIN llmq.workers \subseteq {llmq.blsWorker}

(***************************************************************************)
(* SpecRest: all eight REST endpoints, from warmup on, one call at a time, *)
(* while blocks connect and disconnect                                     *)
(***************************************************************************)
NextRest ==
    \/ hcall.pc = "idle" /\ Start(ShortRequests)
    \/ Lookup
    \/ ReadHeight
    \/ ReadTip
    \/ Finish
    \/ HandlerStart
    \/ HeadersCollect
    \/ BlockRead
    \/ TxRead
    \/ InfoRead
    \/ HandlerReply
    \/ HandlerFinish
    \/ \E b \in Blocks : ConnectBlock(b)
    \/ DisconnectTip
    \/ \E t \in TxIds : AcceptToMemoryPool(t)
    \/ FinishWarmup

SpecRest == InitHandlers /\ [][NextRest]_vars

\* C13: a request that reaches any of the eight endpoints while the node is in
\* warmup is answered 503 with result false, and the handler has parsed nothing
\* and read no chain, coin or pool state.
C13_WarmupRefused ==
    [][/\ (fWarmup /\ pc = "idle" /\ pc' # "idle") =>
            /\ pc' = "done"
            /\ reply'.status = HTTP_SERVICE_UNAVAILABLE
            /\ ~reply'.ret
            /\ touched' = Untouched
            /\ <<rf', fCheckMemPool', vOutPoints', hits', outs'>> =
                 <<"RF_UNDEF", FALSE, <<>>, <<>>, <<>>>>
            /\ ledgerVars' = ledgerVars
       /\ (fWarmup /\ hcall.pc = "idle" /\ hcall'.pc # "idle") =>
            /\ hcall'.handler \in Handlers
            /\ hcall'.pc = "done"
            /\ Len(hcall'.replies) = 1
            /\ hcall'.replies[1].status = HTTP_SERVICE_UNAVAILABLE
            /\ ~hcall'.ret
            /\ hcall'.touched = {}
            /\ <<hcall'.rf, hcall'.count, hcall'.headers>> = <<"RF_UNDEF", 0, <<>>>>
            /\ ledgerVars' = ledgerVars]_vars

\* C13's case: a well-formed headers request, refused during warmup
C13_Witness ==
    /\ hcall.handler = "headers"
    /\ hcall.pc = "done"
    /\ hcall.in.fmt = "json"
    /\ hcall.in.hash.block = Genesis
    /\ strtol(hcall.in.count) = 1
    /\ Len(hcall.replies) = 1
    /\ hcall.replies[1].status = HTTP_SERVICE_UNAVAILABLE

\* C14: a handler that has returned has written exactly one reply, and returned
\* true iff that reply is 200 OK (false iff it is RESTERR's plain-text error);
\* before it returns it has written none.
C14_OneReply ==
    /\ pc = "done" =>
          /\ nReplies = 1
          /\ reply.ret <=> reply.status = HTTP_OK
          /\ ~reply.ret => (reply.contentType = "text/plain" /\ reply.status # HTTP_OK)
    /\ pc # "done" => nReplies = 0
    /\ hcall.pc = "done" =>
          /\ Len(hcall.replies) = 1
          /\ hcall.ret <=> hcall.replies[1].status = HTTP_OK
          /\ hcall.ret = hcall.replies[1].ret
          /\ ~hcall.ret => (/\ hcall.replies[1].contentType = "text/plain"
                            /\ hcall.replies[1].status # HTTP_OK)
    /\ hcall.pc # "done" => hcall.replies = <<>>

\* C14's case: a hex request with outpoints in the URI and a body has fallen
\* through to the binary case and been refused with one reply
C14_Witness ==
    /\ pc = "done"
    /\ reqIn.fmt = "hex"
    /\ reqIn.uriOutpoints > 0
    /\ BodyRead(reqIn)
    /\ nReplies = 1
    /\ reply.status = HTTP_INTERNAL_SERVER_ERROR
    /\ ~reply.ret

====
